---------------------------- MODULE Spec2Model ----------------------------
(***************************************************************************)
(* Model of ga4-id-extractor.js: the cookie reader, the availability       *)
(* check, the promise wrappers around gtag('get', ...), the two resolvers  *)
(* (live value raced against a timer, cookie fallback) and the combined    *)
(* and synchronous accessors.                                              *)
(*                                                                         *)
(* A JavaScript string is a sequence of one-character strings.  A          *)
(* JavaScript value is a record [t |-> type, s |-> characters].  The       *)
(* outcome of a call is a record [thrown |-> BOOLEAN, v |-> value].        *)
(***************************************************************************)
EXTENDS Integers, Sequences, FiniteSets, TLC

-----------------------------------------------------------------------------
(* JavaScript values *)

Str(s) == [t |-> "string", s |-> s]
Undefined == [t |-> "undefined", s |-> <<>>]
Bool(b) == [t |-> "boolean", s |-> IF b THEN <<"1">> ELSE <<>>]

\* ToBoolean: '' , undefined and false are falsy
Truthy(v) ==
    CASE v.t = "string" -> v.s # <<>>
      [] v.t = "boolean" -> v.s # <<>>
      [] OTHER -> FALSE

Returned(v) == [thrown |-> FALSE, v |-> v]
Thrown(e) == [thrown |-> TRUE, v |-> [t |-> e, s |-> <<>>]]

-----------------------------------------------------------------------------
(* Strings *)

\* const x = e; Body(x): e is evaluated once and named
With(e, Body(_)) == CHOOSE r \in {Body(x) : x \in {e}} : TRUE

IsSpace(c) == c \in {" ", "\t"}

\* s.indexOf(lit) at position i (1-based)
HasAt(s, i, lit) ==
    /\ i >= 1
    /\ i + Len(lit) - 1 <= Len(s)
    /\ \A j \in 1..Len(lit) : s[i + j - 1] = lit[j]

\* the least element of a non-empty set of numbers
Least(S) == CHOOSE j \in S : \A k \in S : j <= k

\* length of the longest run of white space that starts at position i
SpaceRun(s, i) ==
    CHOOSE n \in 0..(Len(s) + 1 - i) :
        /\ \A j \in i..(i + n - 1) : IsSpace(s[j])
        /\ i + n = Len(s) + 1 \/ ~IsSpace(s[i + n])

\* length of the longest run of characters other than ";" that starts at i
NonSemiRun(s, i) ==
    CHOOSE n \in 0..(Len(s) + 1 - i) :
        /\ \A j \in i..(i + n - 1) : s[j] # ";"
        /\ i + n = Len(s) + 1 \/ s[i + n] = ";"

\* positions of the one-character separator sep in s
Hits(s, sep) == {j \in 1..Len(s) : s[j] = sep}

\* the first position from i on where sep stands, Len(s) + 1 if it does not
NextHit(s, sep, i) ==
    CHOOSE j \in i..(Len(s) + 1) :
        /\ j = Len(s) + 1 \/ s[j] = sep
        /\ \A k \in i..(j - 1) : s[k] # sep

\* s.split(sep) for a one-character separator: the sequence of fields
RECURSIVE SplitFrom(_, _, _)
\* the fields of s from position i on, the first of them ending before j
SplitAt(s, sep, i, j) ==
    IF j > Len(s) THEN <<SubSeq(s, i, Len(s))>>
    ELSE <<SubSeq(s, i, j - 1)>> \o SplitFrom(s, sep, j + 1)
SplitFrom(s, sep, i) == With(NextHit(s, sep, i), LAMBDA j : SplitAt(s, sep, i, j))
Split(s, sep) == SplitFrom(s, sep, 1)

-----------------------------------------------------------------------------
(* decodeURIComponent *)

HexDigits == <<"0", "1", "2", "3", "4", "5", "6", "7",
               "8", "9", "A", "B", "C", "D", "E", "F">>
LowerHex == <<"a", "b", "c", "d", "e", "f">>

IsHex(c) == (\E i \in 1..16 : HexDigits[i] = c) \/ (\E i \in 1..6 : LowerHex[i] = c)

HexVal(c) ==
    IF \E i \in 1..16 : HexDigits[i] = c
    THEN (CHOOSE i \in 1..16 : HexDigits[i] = c) - 1
    ELSE (CHOOSE i \in 1..6 : LowerHex[i] = c) + 9

\* the characters with codes 32..126, in code order (the grave accent, code
\* 96, cannot be written in a string of this language and is named "%60")
Ascii == <<
       " ", "!", "\"", "#", "$", "%", "&", "'", "(", ")", "*", "+", ",", "-", ".", "/",
       "0", "1", "2", "3", "4", "5", "6", "7", "8", "9", ":", ";", "<", "=", ">", "?",
       "@", "A", "B", "C", "D", "E", "F", "G", "H", "I", "J", "K", "L", "M", "N", "O",
       "P", "Q", "R", "S", "T", "U", "V", "W", "X", "Y", "Z", "[", "\\", "]", "^", "_",
       "%60", "a", "b", "c", "d", "e", "f", "g", "h", "i", "j", "k", "l", "m", "n", "o",
       "p", "q", "r", "s", "t", "u", "v", "w", "x", "y", "z", "{", "|", "}", "~" >>

\* a "%XX" escape sequence starts at position k
EscapeAt(s, k) ==
    /\ k + 2 <= Len(s)
    /\ s[k] = "%"
    /\ IsHex(s[k + 1])
    /\ IsHex(s[k + 2])

ByteAt(s, k) == 16 * HexVal(s[k + 1]) + HexVal(s[k + 2])

\* number of octets of the UTF-8 sequence a lead octet announces; 0: no lead octet
Utf8Len(b) ==
    IF b < 128 THEN 1
    ELSE IF b < 192 THEN 0
    ELSE IF b < 224 THEN 2
    ELSE IF b < 240 THEN 3
    ELSE IF b < 248 THEN 4
    ELSE 0

\* the octets b, b2, ... encode a code point: not overlong, no surrogate, <= 10FFFF
ValidLead(b, b2) ==
    /\ b \notin {192, 193}
    /\ b = 224 => b2 >= 160
    /\ b = 237 => b2 < 160
    /\ b = 240 => b2 >= 144
    /\ b = 244 => b2 < 144
    /\ b < 245

ByteName(b) == "%" \o HexDigits[(b \div 16) + 1] \o HexDigits[(b % 16) + 1]

RECURSIVE OctetsName(_, _, _)
OctetsName(s, k, n) ==
    IF n = 0 THEN "" ELSE ByteName(ByteAt(s, k)) \o OctetsName(s, k + 3, n - 1)

\* the character the n octets at position k decode to, b the first of them: a
\* printable ASCII character or the tab as itself, any other character named
\* by its UTF-8 octets
DecodedChar(s, k, b, n) ==
    IF n = 1 /\ b \in 32..126 THEN Ascii[b - 31]
    ELSE IF n = 1 /\ b = 9 THEN "\t"
    ELSE OctetsName(s, k, n)

\* what stands for the rest of a text that cannot be decoded
Malformed == <<"URIError">>

\* the characters decodeURIComponent decodes from position k of s on, ending
\* with "URIError" where it comes upon a malformed escape sequence
RECURSIVE DecodeFrom(_, _)
\* an escape sequence of first octet b, which announces n octets, starts at k
DecodeEscape(s, k, b, n) ==
    IF n = 0 THEN Malformed
    ELSE IF \E i \in 1..(n - 1) :
               \/ ~EscapeAt(s, k + 3 * i)
               \/ ByteAt(s, k + 3 * i) \notin 128..191
    THEN Malformed
    ELSE IF n > 1 /\ ~ValidLead(b, ByteAt(s, k + 3)) THEN Malformed
    ELSE <<DecodedChar(s, k, b, n)>> \o DecodeFrom(s, k + 3 * n)

DecodeAt(s, k, b) == DecodeEscape(s, k, b, Utf8Len(b))

DecodeFrom(s, k) ==
    IF k > Len(s) THEN <<>>
    ELSE IF s[k] # "%" THEN <<s[k]>> \o DecodeFrom(s, k + 1)
    ELSE IF ~EscapeAt(s, k) THEN Malformed
    ELSE With(ByteAt(s, k), LAMBDA b : DecodeAt(s, k, b))

DecodeChars(s) == DecodeFrom(s, 1)

\* decodeURIComponent(s): [ok |-> TRUE, s |-> decoded] or ok = FALSE for URIError
Decoded(chars) ==
    IF \E i \in 1..Len(chars) : chars[i] = "URIError" THEN [ok |-> FALSE, s |-> <<>>]
    ELSE [ok |-> TRUE, s |-> chars]

PercentDecode(s) == With(DecodeChars(s), Decoded)

-----------------------------------------------------------------------------
(* Cookie reader *)

\* the characters name.replace(/[-.$?*|{}()[\]\\/+^]/g, '\\$&') escapes
RegExpSpecial == {"-", ".", "$", "?", "*", "|", "{", "}", "(", ")", "[", "]",
                  "\\", "/", "+", "^"}

RECURSIVE EscapeFrom(_, _)
EscapeFrom(name, i) ==
    IF i > Len(name) THEN <<>>
    ELSE (IF name[i] \in RegExpSpecial THEN <<"\\", name[i]>> ELSE <<name[i]>>)
         \o EscapeFrom(name, i + 1)

EscapeRegExp(name) == EscapeFrom(name, 1)

\* the atoms of the pattern text: "\c" matches the character c, an unescaped
\* "." any character, any other character itself
RECURSIVE AtomsFrom(_, _)
AtomsFrom(p, i) ==
    IF i > Len(p) THEN <<>>
    ELSE IF p[i] = "\\" /\ i < Len(p)
    THEN <<[c |-> p[i + 1], any |-> FALSE]>> \o AtomsFrom(p, i + 2)
    ELSE <<[c |-> p[i], any |-> (p[i] = ".")]>> \o AtomsFrom(p, i + 1)

PatternAtoms(p) == AtomsFrom(p, 1)

MatchAtoms(s, i, atoms) ==
    /\ i + Len(atoms) - 1 <= Len(s)
    /\ \A j \in 1..Len(atoms) : atoms[j].any \/ s[i + j - 1] = atoms[j].c

NoMatch == [found |-> FALSE, from |-> 0, to |-> 0]

\* \s*([^;]+) after the "=": w3 white space characters end before position d,
\* n characters other than ";" start at d; with n = 0 the group takes the
\* last white space character
ValueSpan(d, w3, n) ==
    IF n >= 1 THEN [found |-> TRUE, from |-> d, to |-> d + n - 1]
    ELSE IF w3 >= 1 THEN [found |-> TRUE, from |-> d - 1, to |-> d - 1]
    ELSE NoMatch

\* \s*([^;]+) from position c, with w3 the white space run at c
AfterEquals(s, c, w3) == ValueSpan(c + w3, w3, NonSemiRun(s, c + w3))

\* "=" at position e
AtEquals(s, e) ==
    IF e <= Len(s) /\ s[e] = "=" THEN AfterEquals(s, e + 1, SpaceRun(s, e + 1))
    ELSE NoMatch

\* '(^|;)\s*' + name + '\s*=\s*([^;]+)' tried with the group (^|;) ending
\* after position q and the first \s* taking w characters: where ([^;]+) matches
CookieMatch(s, q, w, atoms) ==
    IF MatchAtoms(s, q + 1 + w, atoms)
    THEN AtEquals(s, q + 1 + w + Len(atoms) + SpaceRun(s, q + 1 + w + Len(atoms)))
    ELSE NoMatch

\* the ways the pattern matches: where (^|;) ends, what the first \s* takes
Attempts(s) ==
    UNION {{q} \X (0..SpaceRun(s, q + 1)) : q \in {0} \cup Hits(s, ";")}

Candidates(s, atoms) ==
    {x \in Attempts(s) : CookieMatch(s, x[1], x[2], atoms).found}

\* the match a regular expression engine reports: leftmost, \s* greedy
FirstOf(cands) ==
    CHOOSE x \in cands : \A y \in cands : x[1] < y[1] \/ (x[1] = y[1] /\ x[2] >= y[2])

\* decodeURIComponent(m.pop())
DecodeOutcome(dec) == IF dec.ok THEN Returned(Str(dec.s)) ELSE Thrown("URIError")

DecodeText(raw) == With(PercentDecode(raw), DecodeOutcome)

DecodeSpan(s, m) == With(SubSeq(s, m.from, m.to), DecodeText)

\* m ? decodeURIComponent(m.pop()) : ''
MatchOutcome(s, atoms, cands) ==
    IF cands = {} THEN Returned(Str(<<>>))
    ELSE With(FirstOf(cands),
              LAMBDA x : With(CookieMatch(s, x[1], x[2], atoms),
                              LAMBDA m : DecodeSpan(s, m)))

\* const m = document.cookie.match(...)
MatchPattern(s, atoms) ==
    With(Candidates(s, atoms), LAMBDA cands : MatchOutcome(s, atoms, cands))

MatchText(s, p) == With(PatternAtoms(p), LAMBDA atoms : MatchPattern(s, atoms))

\* readCookie(name) over document.cookie = cookie
readCookie(cookie, name) ==
    With(EscapeRegExp(name), LAMBDA p : MatchText(cookie, p))

GaCookieName == <<"_", "g", "a">>
GaSessionPrefix == <<"_", "g", "a", "_">>

\* parts.length >= 4 ? (parts[2] + '.' + parts[3]) : ''
ClientIdOfParts(parts) ==
    IF Len(parts) >= 4 THEN Returned(Str(parts[3] \o <<".">> \o parts[4]))
    ELSE Returned(Str(<<>>))

\* getClientIdFromCookie after v = readCookie('_ga')
ClientIdOf(v) ==
    IF v.thrown THEN v
    ELSE IF ~Truthy(v.v) THEN Returned(Str(<<>>))
    ELSE With(Split(v.v.s, "."), ClientIdOfParts)

getClientIdFromCookie(cookie) == With(readCookie(cookie, GaCookieName), ClientIdOf)

\* s.replace(/G-/, ''): the first occurrence of "G-" removed
RemoveAt(s, hits) ==
    IF hits = {} THEN s
    ELSE SubSeq(s, 1, Least(hits) - 1) \o SubSeq(s, Least(hits) + 2, Len(s))

ReplaceGDash(s) == RemoveAt(s, {j \in 1..Len(s) : HasAt(s, j, <<"G", "-">>)})

\* `_ga_${measurementId.replace(/G-/, '')}`
SessionCookieName(measurementId) == GaSessionPrefix \o ReplaceGDash(measurementId.s)

\* p.length >= 3 ? p[2] : ''
SessionIdOfParts(p) == IF Len(p) >= 3 THEN Returned(Str(p[3])) ELSE Returned(Str(<<>>))

\* getSessionIdFromCookie after v = readCookie(cookieName)
SessionIdOf(v) ==
    IF v.thrown THEN v
    ELSE IF ~Truthy(v.v) THEN Returned(Str(<<>>))
    ELSE With(Split(v.v.s, "."), SessionIdOfParts)

SessionIdNamed(cookie, cookieName) == With(readCookie(cookie, cookieName), SessionIdOf)

getSessionIdFromCookie(cookie, measurementId) ==
    IF measurementId.t # "string" THEN Thrown("TypeError")
    ELSE With(SessionCookieName(measurementId),
              LAMBDA cookieName : SessionIdNamed(cookie, cookieName))

-----------------------------------------------------------------------------
(* Bounds and inputs *)

MaxCallbacks == 2     \* invocations of the callbacks handed to gtag, per call

Kinds == {"client_id", "session_id"}

\* contents of document.cookie
CookieStrings == {
    <<>>,
    \* _ga=GA1.2.1%2E2.34; _ga_AB=GS1.1.98.5
    <<"_", "g", "a", "=", "G", "A", "1", ".", "2", ".", "1", "%", "2", "E", "2", ".", "3", "4", ";", " ", "_", "g", "a", "_", "A", "B", "=", "G", "S", "1", ".", "1", ".", "9", "8", ".", "5">>,
    \* _ga=GA1.2; _ga_AB=GS1.1
    <<"_", "g", "a", "=", "G", "A", "1", ".", "2", ";", " ", "_", "g", "a", "_", "A", "B", "=", "G", "S", "1", ".", "1">>,
    \* _ga=%; _ga_AB=GS1.1.%E0%A4%A
    <<"_", "g", "a", "=", "%", ";", " ", "_", "g", "a", "_", "A", "B", "=", "G", "S", "1", ".", "1", ".", "%", "E", "0", "%", "A", "4", "%", "A">> }

\* measurement ids a caller passes: G-AB, the empty string, none
MeasurementIds == {Str(<<"G", "-", "A", "B">>), Str(<<>>), Undefined}

\* values gtag hands to the callback
LiveValues == {Str(<<"L", "1">>), Str(<<"L", "2">>), Str(<<>>), Undefined}

NoValue == [t |-> "none", s |-> <<>>]

MaxValueLen == 6      \* characters of a generated cookie value

\* cookie values as document.cookie holds them (raw) and as text (content):
\* every string of "7" and "." up to MaxValueLen, values with a percent sign
\* that starts no escape, and a value with an escaped "."
PlainValues == UNION {[1..n -> {"7", "."}] : n \in 1..MaxValueLen}
LoneEscapes == {<<"%">>, <<"7", ".", "7", ".", "%", "Z", ".", "7">>}
AccessorValues ==
    {[raw |-> v, content |-> v] : v \in PlainValues \cup LoneEscapes}
        \cup {[raw |-> <<"7", "%", "2", "E", "7", ".", "7", ".", "7">>, content |-> <<"7", ".", "7", ".", "7", ".", "7">>]}

\* document.cookie = '_ga_AB=' + raw + '; _ga=' + raw
BothCookies(raw) == <<"_", "g", "a", "_", "A", "B", "=">> \o raw \o <<";", " ", "_", "g", "a", "=">> \o raw

\* _ga_AB=GS1.1.1; _ga_AG-B=GS1.1.2; _ga_G-A=GS1.1.3; _ga_G-AB=GS1.1.4
NamedSessions ==
    <<"_", "g", "a", "_", "A", "B", "=", "G", "S", "1", ".", "1", ".", "1", ";", " ", "_", "g", "a", "_", "A", "G", "-", "B", "=", "G", "S", "1", ".", "1", ".", "2", ";", " ", "_", "g", "a", "_", "G", "-", "A", "=", "G", "S", "1", ".", "1", ".", "3", ";", " ", "_", "g", "a", "_", "G", "-", "A", "B", "=", "G", "S", "1", ".", "1", ".", "4">>

\* x=7: neither cookie is there
NoGaCookies == <<"x", "=", "7">>

AccessorCookies ==
    {BothCookies(x.raw) : x \in AccessorValues} \cup {NamedSessions, NoGaCookies, <<>>}

\* G-AB, AB, AG-B, G-G-A, the empty string, none
AccessorIds ==
    {Str(<<"G", "-", "A", "B">>), Str(<<"A", "B">>), Str(<<"A", "G", "-", "B">>), Str(<<"G", "-", "G", "-", "A">>), Str(<<>>), Undefined}

-----------------------------------------------------------------------------
(* State *)

VARIABLES
    gtagIsFn,       \* typeof window.gtag === 'function'
    gtmDefined,     \* typeof window.google_tag_manager !== 'undefined'
    cookie,         \* document.cookie
    op,             \* the public function in progress, "none" before a call
    measurementId,  \* its measurementId argument
    pc,             \* per kind: where getClientId / getSessionId stands
    wrapper,        \* per kind: the promise of getClientIdFromGtag / getSessionIdFromGtag
    timer,          \* per kind: the setTimeout of the race
    race,           \* per kind: the promise of Promise.race
    result,         \* per kind: the promise getClientId / getSessionId returned
    out,            \* what getGA4Identifiers / getGA4IdentifiersSync gave the caller;
                    \* in AccessorSpec, what the function called returned or threw
    gtagCalls,      \* per kind: calls of gtag('get', ...) made in this call
    timersSet,      \* per kind: calls of setTimeout made in this call
    cookieReads,    \* per kind: evaluations of the cookie accessor in this call
    warnings,       \* console.warn calls made in this call
    callbacks,      \* per kind: times gtag invoked the callback
    firstEvent      \* per kind: what gtag did first with the wrapper's callback:
                    \* the value it first invoked it with, or ThrewFirst

envVars == <<gtagIsFn, gtmDefined, cookie>>
callVars == <<op, measurementId>>
kindVars == <<pc, wrapper, timer, race, result>>
traceVars == <<gtagCalls, timersSet, cookieReads, warnings, callbacks, firstEvent>>
vars == <<envVars, callVars, kindVars, out, traceVars>>

ThrewFirst == [t |-> "thrown", s |-> <<>>]

NoPromise == [state |-> "none", v |-> NoValue]
Pending == [state |-> "pending", v |-> NoValue]
Fulfilled(v) == [state |-> "fulfilled", v |-> v]
Rejected(e) == [state |-> "rejected", v |-> e]

NoOut == [state |-> "none", clientId |-> NoValue, sessionId |-> NoValue,
          source |-> [clientId |-> "", sessionId |-> ""]]

Init ==
    /\ gtagIsFn \in BOOLEAN
    /\ gtmDefined \in BOOLEAN
    /\ cookie \in CookieStrings
    /\ op = "none"
    /\ measurementId = Undefined
    /\ pc = [k \in Kinds |-> "idle"]
    /\ wrapper = [k \in Kinds |-> NoPromise]
    /\ timer = [k \in Kinds |-> [state |-> "none", seq |-> 0]]
    /\ race = [k \in Kinds |-> [state |-> "none", v |-> NoValue, by |-> "none"]]
    /\ result = [k \in Kinds |-> NoPromise]
    /\ out = NoOut
    /\ gtagCalls = [k \in Kinds |-> 0]
    /\ timersSet = [k \in Kinds |-> 0]
    /\ cookieReads = [k \in Kinds |-> 0]
    /\ warnings = 0
    /\ callbacks = [k \in Kinds |-> 0]
    /\ firstEvent = [k \in Kinds |-> NoValue]

-----------------------------------------------------------------------------
(* Helpers of the resolvers *)

\* isGtagAvailable without the test of window.google_tag_manager
isGtagAvailableNoGtm(mid) ==
    IF gtagIsFn THEN mid ELSE Bool(FALSE)

\* isGtagAvailable without the operand measurementId
isGtagAvailableAnyId(mid) == Bool(gtagIsFn /\ gtmDefined)

\* isGtagAvailable(measurementId): false, or the measurementId itself
isGtagAvailable(mid) ==
    IF gtagIsFn /\ gtmDefined THEN mid ELSE Bool(FALSE)

\* value || ''
OrEmpty(v) == IF Truthy(v) THEN v ELSE Str(<<>>)

\* a resolve function that settles its promise again
ResolveAlways(p, v) == Fulfilled(v)

\* the resolve function of a promise: only a pending promise takes the value
Resolve(p, v) == IF p.state = "pending" THEN Fulfilled(v) ELSE p

\* the promise of an async function whose body returned or threw
Settle(outcome) ==
    IF outcome.thrown THEN Rejected(outcome.v) ELSE Fulfilled(outcome.v)

\* getClientIdFromCookie() / getSessionIdFromCookie(measurementId)
CookieAccessor(k, c, mid) ==
    IF k = "client_id" THEN getClientIdFromCookie(c) ELSE getSessionIdFromCookie(c, mid)

\* a source tag that does not look at the availability check
SourceTagIgnoresAvail(v, avail) ==
    IF Truthy(v) THEN "gtag-api" ELSE "not-found"

\* a source tag that is 'cookie' for every value present
SourceTagCookieOnly(v, avail) ==
    IF Truthy(v) THEN "cookie" ELSE "not-found"

\* value ? (isGtagAvailable(measurementId) ? 'gtag-api' : 'cookie') : 'not-found'
SourceTag(v, avail) ==
    IF Truthy(v) THEN (IF Truthy(avail) THEN "gtag-api" ELSE "cookie")
    ELSE "not-found"

\* getGA4Identifiers is between its calls of getClientId and getSessionId
ModuleSync ==
    /\ op = "getGA4Identifiers"
    /\ pc["client_id"] \notin {"idle", "gtag"}
    /\ pc["session_id"] = "idle"

\* the page's gtag is on the stack, called by a wrapper
InGtag == \E k \in Kinds : pc[k] = "gtag"

\* the await Promise.all of getGA4Identifiers can resume
AllSettled ==
    /\ op = "getGA4Identifiers"
    /\ out.state = "none"
    /\ pc["session_id"] # "idle"
    /\ \/ \E k \in Kinds : result[k].state = "rejected"
       \/ \A k \in Kinds : result[k].state = "fulfilled"

MicrotaskPending == (\E k \in Kinds : pc[k] = "resume") \/ AllSettled

\* a timer's task has ended with () => resolve('') and the continuation it
\* queued has not run yet: no code of the page runs in between
TimerTurn == \E k \in Kinds : pc[k] = "resume" /\ race[k].by = "timer"

\* a resolver, from its first line to the call of gtag or to its return
Begin(k, mid) ==
    IF Truthy(isGtagAvailable(mid))
    THEN /\ pc' = [pc EXCEPT ![k] = "gtag"]
         /\ wrapper' = [wrapper EXCEPT ![k] = Pending]
         /\ gtagCalls' = [gtagCalls EXCEPT ![k] = @ + 1]
         /\ result' = [result EXCEPT ![k] = Pending]
         /\ UNCHANGED cookieReads
    ELSE /\ pc' = [pc EXCEPT ![k] = "done"]
         /\ result' = [result EXCEPT ![k] = Settle(CookieAccessor(k, cookie, mid))]
         /\ cookieReads' = [cookieReads EXCEPT ![k] = @ + 1]
         /\ UNCHANGED <<wrapper, gtagCalls>>

\* after gtag returned or threw, with w the wrapper's promise: the timer is
\* set and Promise.race awaited; a wrapper already fulfilled wins the race
ArmRace(k, w) ==
    /\ wrapper' = [wrapper EXCEPT ![k] = w]
    /\ timer' = [timer EXCEPT ![k] =
                    [state |-> "armed",
                     seq |-> timersSet["client_id"] + timersSet["session_id"] + 1]]
    /\ timersSet' = [timersSet EXCEPT ![k] = @ + 1]
    /\ race' = [race EXCEPT ![k] =
                   IF w.state = "fulfilled"
                   THEN [state |-> "fulfilled", v |-> w.v, by |-> "live"]
                   ELSE [state |-> "pending", v |-> NoValue, by |-> "none"]]
    /\ pc' = [pc EXCEPT ![k] = IF w.state = "fulfilled" THEN "resume" ELSE "racing"]

-----------------------------------------------------------------------------
(* Public calls *)

CallGetClientId(mid) ==
    /\ op = "none"
    /\ op' = "getClientId" /\ measurementId' = mid
    /\ Begin("client_id", mid)
    /\ UNCHANGED <<envVars, timer, race, out, timersSet, warnings, callbacks, firstEvent>>

CallGetSessionId(mid) ==
    /\ op = "none"
    /\ op' = "getSessionId" /\ measurementId' = mid
    /\ Begin("session_id", mid)
    /\ UNCHANGED <<envVars, timer, race, out, timersSet, warnings, callbacks, firstEvent>>

\* getGA4Identifiers up to the end of the synchronous part of getClientId
CallGetGA4Identifiers(mid) ==
    /\ op = "none"
    /\ op' = "getGA4Identifiers" /\ measurementId' = mid
    /\ Begin("client_id", mid)
    /\ UNCHANGED <<envVars, timer, race, out, timersSet, warnings, callbacks, firstEvent>>

\* getGA4Identifiers: the call getSessionId(measurementId, timeout)
CallSessionInGA4 ==
    /\ ModuleSync
    /\ Begin("session_id", measurementId)
    /\ UNCHANGED <<envVars, callVars, timer, race, out, timersSet, warnings,
                   callbacks, firstEvent>>

\* a synchronous accessor that tags its values as getGA4Identifiers does, by
\* the availability check
CallSyncTagsByAvail(mid) ==
    /\ op = "none"
    /\ op' = "getGA4IdentifiersSync" /\ measurementId' = mid
    /\ LET c == CookieAccessor("client_id", cookie, mid)
           s == CookieAccessor("session_id", cookie, mid)
       IN  /\ out' = IF c.thrown \/ s.thrown
                     THEN [NoOut EXCEPT !.state = "thrown"]
                     ELSE [state |-> "returned", clientId |-> c.v, sessionId |-> s.v,
                           source |->
                             [clientId |-> SourceTag(c.v, isGtagAvailable(mid)),
                              sessionId |-> SourceTag(s.v, isGtagAvailable(mid))]]
           /\ cookieReads' =
                 [k \in Kinds |->
                    IF k = "client_id" THEN (IF c.thrown THEN 1 ELSE 2)
                    ELSE (IF c.thrown THEN 0 ELSE IF s.thrown THEN 1 ELSE 2)]
    /\ UNCHANGED <<envVars, kindVars, gtagCalls, timersSet, warnings,
                   callbacks, firstEvent>>

\* getGA4IdentifiersSync(measurementId): each accessor is evaluated twice
CallSync(mid) ==
    /\ op = "none"
    /\ op' = "getGA4IdentifiersSync" /\ measurementId' = mid
    /\ LET c == CookieAccessor("client_id", cookie, mid)
           s == CookieAccessor("session_id", cookie, mid)
       IN  /\ out' = IF c.thrown \/ s.thrown
                     THEN [NoOut EXCEPT !.state = "thrown"]
                     ELSE [state |-> "returned", clientId |-> c.v, sessionId |-> s.v,
                           source |->
                             [clientId |-> IF Truthy(c.v) THEN "cookie" ELSE "not-found",
                              sessionId |-> IF Truthy(s.v) THEN "cookie" ELSE "not-found"]]
           /\ cookieReads' =
                 [k \in Kinds |->
                    IF k = "client_id" THEN (IF c.thrown THEN 1 ELSE 2)
                    ELSE (IF c.thrown THEN 0 ELSE IF s.thrown THEN 1 ELSE 2)]
    /\ UNCHANGED <<envVars, kindVars, gtagCalls, timersSet, warnings,
                   callbacks, firstEvent>>

-----------------------------------------------------------------------------
(* The page's gtag *)

\* gtag('get', measurementId, property, callback) returns
GtagReturn(k) ==
    /\ pc[k] = "gtag"
    /\ ArmRace(k, wrapper[k])
    /\ UNCHANGED <<envVars, callVars, result, out, gtagCalls, cookieReads, warnings,
                   callbacks, firstEvent>>

\* gtag(...) throws and the catch block only warns: no resolve('')
GtagThrowUnresolved(k) ==
    /\ pc[k] = "gtag"
    /\ warnings' = warnings + 1
    /\ firstEvent' = [firstEvent EXCEPT ![k] = IF @ = NoValue THEN ThrewFirst ELSE @]
    /\ ArmRace(k, wrapper[k])
    /\ UNCHANGED <<envVars, callVars, result, out, gtagCalls, cookieReads, callbacks>>

\* gtag(...) throws: the catch block warns and resolves the wrapper with ''
GtagThrow(k) ==
    /\ pc[k] = "gtag"
    /\ warnings' = warnings + 1
    /\ firstEvent' = [firstEvent EXCEPT ![k] = IF @ = NoValue THEN ThrewFirst ELSE @]
    /\ ArmRace(k, Resolve(wrapper[k], Str(<<>>)))
    /\ UNCHANGED <<envVars, callVars, result, out, gtagCalls, cookieReads, callbacks>>

\* a callback that hands its value to the caller again after the call settled
LiveCallbackResettles(k, v) ==
    /\ wrapper[k].state # "none"
    /\ ~ModuleSync /\ ~TimerTurn
    /\ callbacks["client_id"] + callbacks["session_id"] < MaxCallbacks
    /\ callbacks' = [callbacks EXCEPT ![k] = @ + 1]
    /\ firstEvent' = [firstEvent EXCEPT ![k] = IF @ = NoValue THEN v ELSE @]
    /\ wrapper' = [wrapper EXCEPT ![k] = Resolve(@, OrEmpty(v))]
    /\ IF pc[k] = "racing"
       THEN /\ race' = [race EXCEPT ![k] =
                          [state |-> "fulfilled", v |-> wrapper'[k].v, by |-> "live"]]
            /\ pc' = [pc EXCEPT ![k] = "resume"]
            /\ UNCHANGED result
       ELSE /\ UNCHANGED <<race, pc>>
            /\ result' = [result EXCEPT ![k] =
                             IF pc[k] = "done" THEN Fulfilled(OrEmpty(v)) ELSE @]
    /\ UNCHANGED <<envVars, callVars, timer, out, gtagCalls, timersSet,
                   cookieReads, warnings>>

\* a callback that resolves for a truthy value only and leaves a falsy one
\* to the timer
LiveCallbackSkipsFalsy(k, v) ==
    /\ wrapper[k].state # "none"
    /\ ~ModuleSync /\ ~TimerTurn
    /\ callbacks["client_id"] + callbacks["session_id"] < MaxCallbacks
    /\ callbacks' = [callbacks EXCEPT ![k] = @ + 1]
    /\ firstEvent' = [firstEvent EXCEPT ![k] = IF @ = NoValue THEN v ELSE @]
    /\ wrapper' = [wrapper EXCEPT ![k] = IF Truthy(v) THEN Resolve(@, v) ELSE @]
    /\ IF pc[k] = "racing" /\ Truthy(v)
       THEN /\ race' = [race EXCEPT ![k] =
                          [state |-> "fulfilled", v |-> wrapper'[k].v, by |-> "live"]]
            /\ pc' = [pc EXCEPT ![k] = "resume"]
       ELSE UNCHANGED <<race, pc>>
    /\ UNCHANGED <<envVars, callVars, timer, result, out, gtagCalls, timersSet,
                   cookieReads, warnings>>

\* gtag invokes the callback it was handed, with v: during its call or later
LiveCallback(k, v) ==
    /\ wrapper[k].state # "none"
    /\ ~ModuleSync /\ ~TimerTurn
    /\ callbacks["client_id"] + callbacks["session_id"] < MaxCallbacks
    /\ callbacks' = [callbacks EXCEPT ![k] = @ + 1]
    /\ firstEvent' = [firstEvent EXCEPT ![k] = IF @ = NoValue THEN v ELSE @]
    /\ wrapper' = [wrapper EXCEPT ![k] = Resolve(@, OrEmpty(v))]
    /\ IF pc[k] = "racing"
       THEN /\ race' = [race EXCEPT ![k] =
                          [state |-> "fulfilled", v |-> wrapper'[k].v, by |-> "live"]]
            /\ pc' = [pc EXCEPT ![k] = "resume"]
       ELSE UNCHANGED <<race, pc>>
    /\ UNCHANGED <<envVars, callVars, timer, result, out, gtagCalls, timersSet,
                   cookieReads, warnings>>

-----------------------------------------------------------------------------
(* Event loop *)

\* the timer of the race fires: () => resolve('').  Timers fire as tasks; the
\* timers of one call have the same delay, so the one set first fires first
TimerFire(k) ==
    /\ timer[k].state = "armed"
    /\ ~ModuleSync /\ ~InGtag /\ ~MicrotaskPending
    /\ \A j \in Kinds :
          timer[j].state = "armed" => timer[j].seq >= timer[k].seq
    /\ timer' = [timer EXCEPT ![k].state = "fired"]
    /\ IF race[k].state = "pending"
       THEN /\ race' = [race EXCEPT ![k] =
                          [state |-> "fulfilled", v |-> Str(<<>>), by |-> "timer"]]
            /\ pc' = [pc EXCEPT ![k] = "resume"]
       ELSE UNCHANGED <<race, pc>>
    /\ UNCHANGED <<envVars, callVars, wrapper, result, out, traceVars>>

\* Continue without the cookie fallback: the race's value is returned as it is
ContinueNoFallback(k) ==
    /\ pc[k] = "resume"
    /\ ~ModuleSync /\ ~InGtag
    /\ pc' = [pc EXCEPT ![k] = "done"]
    /\ result' = [result EXCEPT ![k] = Fulfilled(race[k].v)]
    /\ UNCHANGED <<envVars, callVars, wrapper, timer, race, out, traceVars>>

\* Continue that reads the cookie whatever the race gave
ContinueAlwaysFallback(k) ==
    /\ pc[k] = "resume"
    /\ ~ModuleSync /\ ~InGtag
    /\ pc' = [pc EXCEPT ![k] = "done"]
    /\ result' = [result EXCEPT ![k] =
                     Settle(CookieAccessor(k, cookie, measurementId))]
    /\ cookieReads' = [cookieReads EXCEPT ![k] = @ + 1]
    /\ UNCHANGED <<envVars, callVars, wrapper, timer, race, out, gtagCalls, timersSet,
                   warnings, callbacks, firstEvent>>

\* Continue that calls gtag once more when the race gave no value
ContinueRetries(k) ==
    /\ pc[k] = "resume"
    /\ ~ModuleSync /\ ~InGtag
    /\ IF Truthy(race[k].v)
       THEN /\ pc' = [pc EXCEPT ![k] = "done"]
            /\ result' = [result EXCEPT ![k] = Fulfilled(race[k].v)]
            /\ UNCHANGED <<wrapper, gtagCalls>>
       ELSE /\ pc' = [pc EXCEPT ![k] = "gtag"]
            /\ wrapper' = [wrapper EXCEPT ![k] = Pending]
            /\ gtagCalls' = [gtagCalls EXCEPT ![k] = @ + 1]
            /\ UNCHANGED result
    /\ UNCHANGED <<envVars, callVars, timer, race, out, timersSet, cookieReads,
                   warnings, callbacks, firstEvent>>

\* Continue that clears document.cookie once it has read it
ContinueClearsCookie(k) ==
    /\ pc[k] = "resume"
    /\ ~ModuleSync /\ ~InGtag
    /\ pc' = [pc EXCEPT ![k] = "done"]
    /\ IF Truthy(race[k].v)
       THEN /\ result' = [result EXCEPT ![k] = Fulfilled(race[k].v)]
            /\ UNCHANGED <<cookieReads, cookie>>
       ELSE /\ result' = [result EXCEPT ![k] =
                            Settle(CookieAccessor(k, cookie, measurementId))]
            /\ cookieReads' = [cookieReads EXCEPT ![k] = @ + 1]
            /\ cookie' = <<>>
    /\ UNCHANGED <<gtagIsFn, gtmDefined, callVars, wrapper, timer, race, out, gtagCalls,
                   timersSet, warnings, callbacks, firstEvent>>

\* getClientId / getSessionId resumes after await Promise.race
Continue(k) ==
    /\ pc[k] = "resume"
    /\ ~ModuleSync /\ ~InGtag
    /\ pc' = [pc EXCEPT ![k] = "done"]
    /\ IF Truthy(race[k].v)
       THEN /\ result' = [result EXCEPT ![k] = Fulfilled(race[k].v)]
            /\ UNCHANGED cookieReads
       ELSE /\ result' = [result EXCEPT ![k] =
                            Settle(CookieAccessor(k, cookie, measurementId))]
            /\ cookieReads' = [cookieReads EXCEPT ![k] = @ + 1]
    /\ UNCHANGED <<envVars, callVars, wrapper, timer, race, out, gtagCalls, timersSet,
                   warnings, callbacks, firstEvent>>

\* getGA4Identifiers resumes after await Promise.all and builds its result
GA4Settle ==
    /\ AllSettled
    /\ ~InGtag
    /\ out' = IF \E k \in Kinds : result[k].state = "rejected"
              THEN [NoOut EXCEPT !.state = "rejected"]
              ELSE [state |-> "fulfilled",
                    clientId |-> result["client_id"].v,
                    sessionId |-> result["session_id"].v,
                    source |->
                      [clientId |-> SourceTag(result["client_id"].v,
                                              isGtagAvailable(measurementId)),
                       sessionId |-> SourceTag(result["session_id"].v,
                                               isGtagAvailable(measurementId))]]
    /\ UNCHANGED <<envVars, callVars, kindVars, traceVars>>

\* the public call is complete for its caller
Complete ==
    CASE op = "getClientId" -> pc["client_id"] = "done"
      [] op = "getSessionId" -> pc["session_id"] = "done"
      [] op \in {"getGA4Identifiers", "getGA4IdentifiersSync"} -> out.state # "none"
      [] OTHER -> FALSE

\* the caller has its answer; nothing of the call is kept
Return ==
    /\ Complete
    /\ \A k \in Kinds : pc[k] \in {"idle", "done"}
    /\ op' = "none" /\ measurementId' = Undefined
    /\ pc' = [k \in Kinds |-> "idle"]
    /\ wrapper' = [k \in Kinds |-> NoPromise]
    /\ timer' = [k \in Kinds |-> [state |-> "none", seq |-> 0]]
    /\ race' = [k \in Kinds |-> [state |-> "none", v |-> NoValue, by |-> "none"]]
    /\ result' = [k \in Kinds |-> NoPromise]
    /\ out' = NoOut
    /\ gtagCalls' = [k \in Kinds |-> 0]
    /\ timersSet' = [k \in Kinds |-> 0]
    /\ cookieReads' = [k \in Kinds |-> 0]
    /\ warnings' = 0
    /\ callbacks' = [k \in Kinds |-> 0]
    /\ firstEvent' = [k \in Kinds |-> NoValue]
    /\ UNCHANGED <<envVars>>

-----------------------------------------------------------------------------
(* The page *)

EnvSetGlobals(f, g) ==
    /\ ~ModuleSync /\ ~TimerTurn
    /\ <<f, g>> # <<gtagIsFn, gtmDefined>>
    /\ gtagIsFn' = f /\ gtmDefined' = g
    /\ UNCHANGED <<cookie, callVars, kindVars, out, traceVars>>

EnvSetCookie(c) ==
    /\ ~ModuleSync /\ ~TimerTurn
    /\ c # cookie
    /\ cookie' = c
    /\ UNCHANGED <<gtagIsFn, gtmDefined, callVars, kindVars, out, traceVars>>

-----------------------------------------------------------------------------
(* Specification *)

Next ==
    \/ \E mid \in MeasurementIds : CallGetClientId(mid)
    \/ \E mid \in MeasurementIds : CallGetSessionId(mid)
    \/ \E mid \in MeasurementIds : CallGetGA4Identifiers(mid)
    \/ CallSessionInGA4
    \/ \E mid \in MeasurementIds : CallSync(mid)
    \/ \E k \in Kinds : GtagReturn(k)
    \/ \E k \in Kinds : GtagThrow(k)
    \/ \E k \in Kinds, v \in LiveValues : LiveCallback(k, v)
    \/ \E k \in Kinds : TimerFire(k)
    \/ \E k \in Kinds : Continue(k)
    \/ GA4Settle
    \/ Return
    \/ \E f \in BOOLEAN, g \in BOOLEAN : EnvSetGlobals(f, g)
    \/ \E c \in CookieStrings : EnvSetCookie(c)

Spec == Init /\ [][Next]_vars

\* getClientId and getSessionId called on their own
ResolverNext ==
    \/ \E mid \in MeasurementIds : CallGetClientId(mid)
    \/ \E mid \in MeasurementIds : CallGetSessionId(mid)
    \/ \E k \in Kinds : GtagReturn(k)
    \/ \E k \in Kinds : GtagThrow(k)
    \/ \E k \in Kinds, v \in LiveValues : LiveCallback(k, v)
    \/ \E k \in Kinds : TimerFire(k)
    \/ \E k \in Kinds : Continue(k)
    \/ Return
    \/ \E f \in BOOLEAN, g \in BOOLEAN : EnvSetGlobals(f, g)
    \/ \E c \in CookieStrings : EnvSetCookie(c)

\* What the event loop guarantees: a timer that is due fires and a queued
\* continuation runs; and the page's gtag, once called, returns or throws
\* The step of Continue(k), told by what it does to pc: Continue(k) is enabled
\* whenever pc[k] = "resume", and no other action takes pc[k] from "resume"
Resumed(k) == pc[k] = "resume" /\ pc' = [pc EXCEPT ![k] = "done"]

ResolverFairness ==
    /\ \A k \in Kinds : WF_vars(TimerFire(k))
    /\ \A k \in Kinds : WF_pc(Resumed(k))
    /\ \A k \in Kinds : WF_vars(GtagReturn(k) \/ GtagThrow(k))

ResolverSpec == Init /\ [][ResolverNext]_vars /\ ResolverFairness

-----------------------------------------------------------------------------
(* The cookie accessors and the availability check called on their own *)

\* what a synchronous function gave its caller
Outcome(o) == [state |-> IF o.thrown THEN "thrown" ELSE "returned", v |-> o.v]

AccessorInit ==
    /\ gtagIsFn \in BOOLEAN
    /\ gtmDefined \in BOOLEAN
    /\ cookie \in AccessorCookies
    /\ measurementId \in AccessorIds
    /\ op = "none"
    /\ pc = [k \in Kinds |-> "idle"]
    /\ wrapper = [k \in Kinds |-> NoPromise]
    /\ timer = [k \in Kinds |-> [state |-> "none", seq |-> 0]]
    /\ race = [k \in Kinds |-> [state |-> "none", v |-> NoValue, by |-> "none"]]
    /\ result = [k \in Kinds |-> NoPromise]
    /\ out = [state |-> "none", v |-> NoValue]
    /\ gtagCalls = [k \in Kinds |-> 0]
    /\ timersSet = [k \in Kinds |-> 0]
    /\ cookieReads = [k \in Kinds |-> 0]
    /\ warnings = 0
    /\ callbacks = [k \in Kinds |-> 0]
    /\ firstEvent = [k \in Kinds |-> NoValue]

\* getClientIdFromCookie()
EvalGetClientIdFromCookie ==
    /\ op = "none"
    /\ op' = "getClientIdFromCookie"
    /\ out' = Outcome(getClientIdFromCookie(cookie))
    /\ UNCHANGED <<envVars, measurementId, kindVars, traceVars>>

\* getSessionIdFromCookie(measurementId)
EvalGetSessionIdFromCookie ==
    /\ op = "none"
    /\ op' = "getSessionIdFromCookie"
    /\ out' = Outcome(getSessionIdFromCookie(cookie, measurementId))
    /\ UNCHANGED <<envVars, measurementId, kindVars, traceVars>>

\* isGtagAvailable(measurementId)
EvalIsGtagAvailable ==
    /\ op = "none"
    /\ op' = "isGtagAvailable"
    /\ out' = Outcome(Returned(isGtagAvailable(measurementId)))
    /\ UNCHANGED <<envVars, measurementId, kindVars, traceVars>>

AccessorNext ==
    \/ EvalGetClientIdFromCookie
    \/ EvalGetSessionIdFromCookie
    \/ EvalIsGtagAvailable

AccessorSpec == AccessorInit /\ [][AccessorNext]_vars

-----------------------------------------------------------------------------
(* Properties *)

\* the call of gtag for k is available at this moment, for measurement id mid
AvailableNow(mid) == gtagIsFn /\ gtmDefined /\ Truthy(mid)

\* what the cookie accessor of k gives at this moment, as a settled promise
CookieNow(k) == Settle(CookieAccessor(k, cookie, measurementId))

\* C1 (timeout liveness): a resolver waiting in its race always gets on: when
\* the callback is not invoked the timer fires and the call settles; and a
\* call whose race the timer settled settles with exactly the outcome of its
\* cookie accessor, read when the call resumes.
C1_TimeoutSettlesWithCookie ==
    /\ \A k \in Kinds : (pc[k] = "racing") ~> (pc[k] = "done")
    /\ [][\A k \in Kinds :
            (pc[k] = "resume" /\ race[k].by = "timer" /\ pc'[k] = "done")
                => (result'[k] = CookieNow(k) /\ result'[k].state # "pending")]_vars

\* the timer settled the race of getSessionId, the callback was never invoked,
\* and the call gave the session id of the cookie
C1_Witness ==
    /\ op = "getSessionId"
    /\ pc["session_id"] = "done"
    /\ race["session_id"].by = "timer"
    /\ callbacks["session_id"] = 0
    /\ result["session_id"] = Fulfilled(Str(<<"9", "8">>))

\* the field of a result of getGA4Identifiers for kind k, and its source tag
Field(o, k) == IF k = "client_id" THEN o.clientId ELSE o.sessionId
TagOf(o, k) == IF k = "client_id" THEN o.source.clientId ELSE o.source.sessionId

\* C2 (live value preferred): when the first thing gtag does with the callback
\* is to hand it a truthy value, and that settles the race before the timer
\* does, the call returns exactly that value and never reads the cookie.
C2_LiveValuePreferred ==
    \A k \in Kinds :
        (pc[k] = "done" /\ race[k].by = "live" /\ Truthy(firstEvent[k]))
            => (result[k] = Fulfilled(firstEvent[k]) /\ cookieReads[k] = 0)

\* getClientId returned the live value "L1" although the cookie holds a
\* client id
C2_Witness ==
    /\ op = "getClientId"
    /\ pc["client_id"] = "done"
    /\ race["client_id"].by = "live"
    /\ firstEvent["client_id"] = Str(<<"L", "1">>)
    /\ result["client_id"] = Fulfilled(Str(<<"L", "1">>))
    /\ cookieReads["client_id"] = 0
    /\ getClientIdFromCookie(cookie) = Returned(Str(<<"1", ".", "2">>))

\* C3 (unavailable live API is skipped): a resolver that starts while gtag is
\* no function, google_tag_manager is undefined or the measurement id is falsy
\* is done in that same step, with the outcome of its cookie accessor, without
\* a call of gtag and without a timer; and nothing of that changes afterwards.
C3_UnavailableSkipsLive ==
    /\ [](\A k \in Kinds :
            (pc[k] = "done" /\ gtagCalls[k] = 0)
                => (timersSet[k] = 0 /\ wrapper[k] = NoPromise /\ timer[k].state = "none"))
    /\ [][\A k \in Kinds :
            /\ (/\ pc[k] = "idle"
                /\ pc'[k] # "idle"
                /\ ~(gtagIsFn /\ gtmDefined /\ Truthy(measurementId')))
                  => /\ pc'[k] = "done"
                     /\ gtagCalls'[k] = 0
                     /\ timersSet'[k] = 0
                     /\ result'[k] = Settle(CookieAccessor(k, cookie, measurementId'))
            /\ (pc[k] = "done" /\ pc'[k] = "done")
                  => /\ gtagCalls'[k] = gtagCalls[k]
                     /\ timersSet'[k] = timersSet[k]
                     /\ result'[k] = result[k]]_vars

\* getSessionId("G-AB") with gtag a function but google_tag_manager undefined:
\* no call of gtag, no timer, the session id of the cookie
C3_Witness ==
    /\ op = "getSessionId"
    /\ pc["session_id"] = "done"
    /\ gtagIsFn /\ ~gtmDefined /\ Truthy(measurementId)
    /\ gtagCalls["session_id"] = 0
    /\ timersSet["session_id"] = 0
    /\ cookieReads["session_id"] = 1
    /\ result["session_id"] = Fulfilled(Str(<<"9", "8">>))

\* C4 (never throws to the caller): no promise of getClientId or getSessionId
\* is rejected, getGA4Identifiers never rejects and getGA4IdentifiersSync
\* never throws.
C4_NeverThrowsToCaller ==
    /\ \A k \in Kinds : result[k].state # "rejected"
    /\ out.state \notin {"rejected", "thrown"}

\* C5 (synchronous throw degrades): the wrapper's promise is never rejected;
\* when gtag throws, the wrapper is fulfilled, with '' unless a callback had
\* fulfilled it before; and a resolver whose wrapper met the throw first
\* settles with the outcome of its cookie accessor.
C5_SyncThrowDegrades ==
    /\ [](\A k \in Kinds : wrapper[k].state # "rejected")
    /\ [][\A k \in Kinds :
            /\ (pc[k] = "gtag" /\ warnings' = warnings + 1)
                  => /\ wrapper'[k].state = "fulfilled"
                     /\ wrapper[k].state = "pending"
                           => wrapper'[k] = Fulfilled(Str(<<>>))
            /\ (pc[k] = "resume" /\ pc'[k] = "done" /\ firstEvent[k] = ThrewFirst)
                  => /\ result'[k] = CookieNow(k)
                     /\ cookieReads'[k] = cookieReads[k] + 1]_vars

\* gtag threw inside getSessionIdFromGtag: one warning, the wrapper fulfilled
\* with '', and getSessionId gave the session id of the cookie before its
\* timer fired
C5_Witness ==
    /\ op = "getSessionId"
    /\ pc["session_id"] = "done"
    /\ firstEvent["session_id"] = ThrewFirst
    /\ warnings = 1
    /\ wrapper["session_id"] = Fulfilled(Str(<<>>))
    /\ timer["session_id"].state = "armed"
    /\ result["session_id"] = Fulfilled(Str(<<"9", "8">>))

\* C6 (source annotation rule): when getGA4Identifiers builds its result, the
\* tag of each field is 'not-found' for a falsy value, and for a truthy value
\* 'gtag-api' if gtag is a function, google_tag_manager is defined and the
\* measurement id is truthy at that moment, 'cookie' if not.
C6_SourceAnnotationRule ==
    [][(out.state = "none" /\ out'.state = "fulfilled")
          => \A k \in Kinds :
                TagOf(out', k) =
                    IF ~Truthy(Field(out', k)) THEN "not-found"
                    ELSE IF AvailableNow(measurementId) THEN "gtag-api"
                    ELSE "cookie"]_vars

\* a result with the client id tagged 'cookie' and no session id
C6_Witness ==
    /\ op = "getGA4Identifiers"
    /\ out.state = "fulfilled"
    /\ out.clientId = Str(<<"1", ".", "2">>)
    /\ out.sessionId = Str(<<>>)
    /\ out.source = [clientId |-> "cookie", sessionId |-> "not-found"]

\* C7 (mislabel on timeout): whenever getGA4Identifiers builds its result
\* while the live API is available, a field whose race the timer settled and
\* whose value is truthy is tagged 'gtag-api', although that value was read
\* from the cookie after a live call that gave nothing.
C7_TimeoutValueTaggedLive ==
    [][\A k \in Kinds :
          (/\ out.state = "none"
           /\ out'.state = "fulfilled"
           /\ race[k].by = "timer"
           /\ Truthy(Field(out', k))
           /\ AvailableNow(measurementId))
              => /\ TagOf(out', k) = "gtag-api"
                 /\ Field(out', k) = result[k].v
                 /\ race[k].v = Str(<<>>)
                 /\ gtagCalls[k] = 1
                 /\ cookieReads[k] = 1]_vars

\* the callback for client_id was never invoked, the timer settled the race,
\* the client id is the cookie's, and its tag is 'gtag-api'
C7_Witness ==
    /\ op = "getGA4Identifiers"
    /\ out.state = "fulfilled"
    /\ race["client_id"].by = "timer"
    /\ callbacks["client_id"] = 0
    /\ cookieReads["client_id"] = 1
    /\ out.clientId = Str(<<"1", ".", "2">>)
    /\ out.source.clientId = "gtag-api"

\* C8 (late callback is discarded): when gtag invokes the callback of a
\* resolver that has settled after its timer fired, the promises the callers
\* hold, the results, the counts of cookie reads, gtag calls, timers and
\* warnings, and the page's globals and cookies all stay as they are.
C8_LateCallbackDiscarded ==
    [][\A k \in Kinds :
          (/\ pc[k] = "done"
           /\ race[k].by = "timer"
           /\ callbacks'[k] = callbacks[k] + 1)
              => /\ result' = result
                 /\ out' = out
                 /\ pc' = pc
                 /\ race' = race
                 /\ cookieReads' = cookieReads
                 /\ gtagCalls' = gtagCalls
                 /\ timersSet' = timersSet
                 /\ warnings' = warnings
                 /\ envVars' = envVars]_vars

\* getClientId settled with the cookie's client id after its timer fired, and
\* the callback was invoked afterwards with "L1"
C8_Witness ==
    /\ op = "getClientId"
    /\ pc["client_id"] = "done"
    /\ race["client_id"].by = "timer"
    /\ callbacks["client_id"] = 1
    /\ firstEvent["client_id"] = Str(<<"L", "1">>)
    /\ result["client_id"] = Fulfilled(Str(<<"1", ".", "2">>))

\* C9 (single resolution): the wrapper's promise is fulfilled exactly when
\* gtag has invoked the callback or thrown; its value is the one the first of
\* these gave (value || '' for a callback, '' for a throw); and once fulfilled
\* it stays as it is for the rest of the call.
C9_SingleResolution ==
    /\ [](\A k \in Kinds :
            /\ wrapper[k].state \in {"none", "pending", "fulfilled"}
            /\ (wrapper[k].state = "fulfilled") <=> (firstEvent[k] # NoValue)
            /\ wrapper[k].state = "fulfilled"
                  => wrapper[k].v = IF firstEvent[k] = ThrewFirst THEN Str(<<>>)
                                    ELSE OrEmpty(firstEvent[k]))
    /\ [][\A k \in Kinds :
            wrapper[k].state = "fulfilled"
                => \/ wrapper'[k] = wrapper[k]
                   \/ op' = "none" /\ wrapper'[k] = NoPromise]_vars

\* the callback for client_id was invoked twice and the wrapper holds the
\* value of the first invocation
C9_Witness ==
    /\ callbacks["client_id"] = 2
    /\ firstEvent["client_id"] = Str(<<"L", "1">>)
    /\ wrapper["client_id"] = Fulfilled(Str(<<"L", "1">>))

\* C10 (concurrent, independent resolutions): getGA4Identifiers settles only
\* after both resolvers have settled, and a result it is fulfilled with holds
\* the value of each.
C10_SettlesAfterBoth ==
    (op = "getGA4Identifiers" /\ out.state # "none")
        => /\ \A k \in Kinds : pc[k] = "done"
           /\ out.state = "fulfilled"
                 => \A k \in Kinds : Field(out, k) = result[k].v

\* C11 (synchronous accessor is cookie-only): a call of getGA4IdentifiersSync
\* is over in the step that makes it: it has returned or thrown, no call of
\* gtag was made, no timer set and no resolver started.  It throws exactly
\* when a cookie accessor throws; if not, clientId and sessionId are the
\* cookie accessors' values and each tag is 'cookie' for a non-empty value
\* and 'not-found' for an empty one, whatever the availability check says.
C11_SyncCookieOnly ==
    /\ [](op = "getGA4IdentifiersSync"
            => /\ out.state \in {"returned", "thrown"}
               /\ \A k \in Kinds :
                     /\ gtagCalls[k] = 0 /\ timersSet[k] = 0 /\ callbacks[k] = 0
                     /\ pc[k] = "idle" /\ wrapper[k] = NoPromise
                     /\ timer[k].state = "none")
    /\ [][(op = "none" /\ op' = "getGA4IdentifiersSync")
            => /\ (out'.state = "thrown")
                     <=> \E k \in Kinds :
                            CookieAccessor(k, cookie, measurementId').thrown
               /\ (out'.state = "returned")
                     => \A k \in Kinds :
                          /\ Field(out', k) = CookieAccessor(k, cookie, measurementId').v
                          /\ Truthy(Field(out', k)) <=> TagOf(out', k) = "cookie"
                          /\ ~Truthy(Field(out', k)) <=> TagOf(out', k) = "not-found"]_vars

\* getGA4IdentifiersSync('') returned while the live API was available: the
\* client id of the cookie tagged 'cookie', no session id, gtag never called
C11_Witness ==
    /\ op = "getGA4IdentifiersSync"
    /\ measurementId = Str(<<>>)
    /\ gtagIsFn /\ gtmDefined
    /\ out.state = "returned"
    /\ out.clientId = Str(<<"1", ".", "2">>)
    /\ out.sessionId = Str(<<>>)
    /\ out.source = [clientId |-> "cookie", sessionId |-> "not-found"]
    /\ \A k \in Kinds : gtagCalls[k] = 0

\* the dot-separated fields of a text, told by the positions of its dots:
\* field n (counted from 0) ends before the dot number n + 1, or with the text
Dots(v) == {j \in 1..Len(v) : v[j] = "."}
NumFields(v) == Cardinality(Dots(v)) + 1
FieldEnd(v, n) ==
    IF n < 0 THEN 0
    ELSE IF n >= Cardinality(Dots(v)) THEN Len(v) + 1
    ELSE CHOOSE j \in Dots(v) : Cardinality({d \in Dots(v) : d < j}) = n
FieldN(v, n) == SubSeq(v, FieldEnd(v, n - 1) + 1, FieldEnd(v, n) - 1)

\* C12 (client id from cookie): getClientIdFromCookie returns, whatever the
\* _ga cookie holds: fields 2 and 3 of its value joined by "." when the value
\* has at least 4 dot-separated fields, '' when it has fewer or there is no
\* _ga cookie.
C12_ClientIdFromCookie ==
    op = "getClientIdFromCookie"
        => /\ out.state = "returned"
           /\ \A x \in AccessorValues :
                 cookie = BothCookies(x.raw)
                     => out.v = Str(IF NumFields(x.content) >= 4
                                    THEN FieldN(x.content, 2) \o <<".">>
                                             \o FieldN(x.content, 3)
                                    ELSE <<>>)
           /\ cookie \in {NamedSessions, NoGaCookies, <<>>} => out.v = Str(<<>>)

\* C13 (session id from cookie): getSessionIdFromCookie('G-AB') returns,
\* whatever the _ga_AB cookie holds: field 2 of its value when the value has
\* at least 3 dot-separated fields, '' when it has fewer or there is no
\* _ga_AB cookie.
C13_SessionIdFromCookie ==
    (op = "getSessionIdFromCookie" /\ measurementId = Str(<<"G", "-", "A", "B">>))
        => /\ out.state = "returned"
           /\ \A x \in AccessorValues :
                 cookie = BothCookies(x.raw)
                     => out.v = Str(IF NumFields(x.content) >= 3
                                    THEN FieldN(x.content, 2) ELSE <<>>)
           /\ cookie = NamedSessions => out.v = Str(<<"1">>)
           /\ cookie \in {NoGaCookies, <<>>} => out.v = Str(<<>>)

\* C14 (availability predicate): isGtagAvailable(measurementId) returns; its
\* value is truthy only if gtag is a function, google_tag_manager is defined
\* and measurementId is truthy; it is false whenever gtag is not a function;
\* and the call changes nothing but what it hands back.
C14_AvailabilityPredicate ==
    /\ [](op = "isGtagAvailable"
            => /\ out.state = "returned"
               /\ Truthy(out.v) => (gtagIsFn /\ gtmDefined /\ Truthy(measurementId))
               /\ ~gtagIsFn => out.v = Bool(FALSE))
    /\ [][(op = "none" /\ op' = "isGtagAvailable")
            => UNCHANGED <<envVars, measurementId, kindVars, traceVars>>]_vars

\* isGtagAvailable('G-AB') with gtag and google_tag_manager present gave the
\* measurement id back
C14_Witness ==
    /\ op = "isGtagAvailable"
    /\ gtagIsFn /\ gtmDefined
    /\ measurementId = Str(<<"G", "-", "A", "B">>)
    /\ out = [state |-> "returned", v |-> Str(<<"G", "-", "A", "B">>)]

\* C15 (read-only and uncached): between calls the module holds nothing; a
\* step that changes document.cookie, window.gtag or
\* window.google_tag_manager is a step of the page, in which the module does
\* nothing; and every value a call takes from the cookies is the cookie
\* accessor's outcome over document.cookie as it is at that moment, in the
\* resolvers and in getGA4IdentifiersSync.
C15_ReadOnlyUncached ==
    /\ [](op = "none"
            => /\ out = NoOut
               /\ \A k \in Kinds :
                     /\ result[k] = NoPromise /\ wrapper[k] = NoPromise
                     /\ race[k].state = "none" /\ pc[k] = "idle"
                     /\ cookieReads[k] = 0)
    /\ [][envVars' # envVars
            => UNCHANGED <<callVars, kindVars, out, gtagCalls, timersSet,
                           cookieReads, warnings>>]_vars
    /\ [][\A k \in Kinds :
            /\ (op' # "getGA4IdentifiersSync" /\ cookieReads'[k] = cookieReads[k] + 1)
                  => result'[k] = Settle(CookieAccessor(k, cookie, measurementId'))
            /\ (op = "none" /\ op' = "getGA4IdentifiersSync" /\ out'.state = "returned")
                  => Field(out', k) = CookieAccessor(k, cookie, measurementId').v]_vars

\* one call of getGA4Identifiers read the client id when the cookies gave
\* none and the session id after the page had set the cookies that give
\* client id 1.2 and session id 98
C15_Witness ==
    /\ op = "getGA4Identifiers"
    /\ \A k \in Kinds : cookieReads[k] = 1
    /\ result["client_id"] = Fulfilled(Str(<<>>))
    /\ result["session_id"] = Fulfilled(Str(<<"9", "8">>))
    /\ getClientIdFromCookie(cookie) = Returned(Str(<<"1", ".", "2">>))

\* C16 (falsy live answer falls through at once): when the first thing gtag
\* does with the callback is to hand it a falsy value, the wrapper is
\* fulfilled with '' in that step and a race still open is settled by it; a
\* resolver resumed by the live side has its timer still armed and goes on to
\* done; and when the live side gave a falsy value, it settles in that step
\* with the outcome of its cookie accessor, the timer not having fired.
C16_FalsyAnswerFallsThrough ==
    /\ \A k \in Kinds : (pc[k] = "resume" /\ race[k].by = "live") ~> (pc[k] = "done")
    /\ [](\A k \in Kinds :
            (pc[k] = "resume" /\ race[k].by = "live") => timer[k].state = "armed")
    /\ [][\A k \in Kinds :
            /\ (/\ callbacks'[k] = callbacks[k] + 1
                /\ firstEvent[k] = NoValue
                /\ ~Truthy(firstEvent'[k]))
                  => /\ wrapper'[k] = Fulfilled(Str(<<>>))
                     /\ pc[k] = "racing"
                           => /\ pc'[k] = "resume"
                              /\ race'[k] = [state |-> "fulfilled", v |-> Str(<<>>),
                                             by |-> "live"]
            /\ (/\ pc[k] = "resume" /\ pc'[k] = "done"
                /\ race[k].by = "live" /\ ~Truthy(race[k].v))
                  => /\ result'[k] = CookieNow(k)
                     /\ cookieReads'[k] = cookieReads[k] + 1
                     /\ timer'[k].state = "armed"]_vars

\* gtag handed undefined to the callback of getClientId: the call is done
\* with the client id of the cookie while its timer is still armed
C16_Witness ==
    /\ op = "getClientId"
    /\ pc["client_id"] = "done"
    /\ firstEvent["client_id"] = Undefined
    /\ race["client_id"] = [state |-> "fulfilled", v |-> Str(<<>>), by |-> "live"]
    /\ timer["client_id"].state = "armed"
    /\ cookieReads["client_id"] = 1
    /\ result["client_id"] = Fulfilled(Str(<<"1", ".", "2">>))

\* a measurement id without a "G-" it starts with
StripLeadingGDash(id) ==
    IF HasAt(id, 1, <<"G", "-">>) THEN SubSeq(id, 3, Len(id)) ELSE id

\* the session id the cookies of NamedSessions hold under each cookie name
NamedSessionId(name) ==
    CASE name = <<"_", "g", "a", "_", "A", "B">> -> <<"1">>
      [] name = <<"_", "g", "a", "_", "A", "G", "-", "B">> -> <<"2">>
      [] name = <<"_", "g", "a", "_", "G", "-", "A">> -> <<"3">>
      [] name = <<"_", "g", "a", "_", "G", "-", "A", "B">> -> <<"4">>
      [] OTHER -> <<>>

\* C17 (session cookie name): for every measurement id that is a string,
\* getSessionIdFromCookie reads the cookie named "_ga_" followed by the id
\* without a "G-" it starts with; a "G-" elsewhere in the id stays.
C17_SessionCookieName ==
    (/\ op = "getSessionIdFromCookie"
     /\ measurementId.t = "string"
     /\ cookie = NamedSessions)
        => out = [state |-> "returned",
                  v |-> Str(NamedSessionId(
                                GaSessionPrefix \o StripLeadingGDash(measurementId.s)))]

\* C18 (no retries): within one call gtag('get', ...) is called at most once
\* for client_id and at most once for session_id, and getClientId and
\* getSessionId called on their own never ask for the other property.
C18_NoRetries ==
    /\ \A k \in Kinds : gtagCalls[k] <= 1
    /\ op = "getClientId" => gtagCalls["session_id"] = 0
    /\ op = "getSessionId" => gtagCalls["client_id"] = 0
    /\ op \in {"none", "getGA4IdentifiersSync"} => \A k \in Kinds : gtagCalls[k] = 0

\* getGA4Identifiers has its result after the client id's race was settled
\* by the timer and gtag threw for the session id: one call of gtag for each
C18_Witness ==
    /\ op = "getGA4Identifiers"
    /\ out.state = "fulfilled"
    /\ race["client_id"].by = "timer"
    /\ firstEvent["session_id"] = ThrewFirst
    /\ \A k \in Kinds : gtagCalls[k] = 1 /\ cookieReads[k] = 1

\* C19 (a 'cookie' tag tells a cookie value): in a result of
\* getGA4Identifiers, a field tagged 'cookie' holds what the cookie accessor
\* gave to its resolver: the resolver read the cookie, and the live side had
\* given its race no value.
C19_CookieTagMeansCookie ==
    (op = "getGA4Identifiers" /\ out.state = "fulfilled")
        => \A k \in Kinds :
              TagOf(out, k) = "cookie"
                  => /\ cookieReads[k] = 1
                     /\ ~(race[k].by = "live" /\ Truthy(race[k].v))

=============================================================================
